---- MODULE Spec2Model ----
(***************************************************************************)
(* Model of the ML service (ml-service/app/main.py, ml-service/app/utils.py)*)
(* and of the ranker training script (ml-service/train_ranker.py).         *)
(*                                                                         *)
(* Every request handler of main.py is a coroutine without an await, so    *)
(* the event loop runs it to completion before it starts another one: one  *)
(* action is one whole handler, and concurrent requests are the arbitrary  *)
(* interleavings of these actions.                                         *)
(*                                                                         *)
(* Numbers: feature values, vector components and scores are small         *)
(* integers; the fallback weights 1.0, 0.2, 0.2, 0.2 are kept in tenths    *)
(* (10, 2, 2, 2), so a fallback score is in tenths too.  None is 0 for a   *)
(* handle and "None" for the ranker kind; a handle is the number of the    *)
(* constructor call that made it.                                          *)
(***************************************************************************)
EXTENDS Integers, Sequences, FiniteSets, TLC

VARIABLES
    _model,            \* utils.py: _model (0 = None)
    modelLoads,        \* successful SentenceTransformer(...) constructions
    modelLoadFailed,   \* has a SentenceTransformer(...) construction raised
    _ranker_model,     \* main.py: _ranker_model ("None", "onnx", "fallback")
    _ranker_session,   \* main.py: _ranker_session (0 = None)
    rankerChecks,      \* os.path.exists(model_path) calls made
    rankerLoads,       \* ort.InferenceSession(model_path) calls made
    firstKind,         \* kind returned by the first get_ranker call
    modelFile,         \* ./models/ranker.onnx: "absent", "corrupt", "valid"
    stdoutUnicode,     \* can sys.stdout encode the non-ASCII log marks
    req,               \* the request handled last
    resp,              \* the response to it
    pc,                \* train_ranker.py: position of main()
    csv,               \* --csv: [readable, columns]
    outPath,           \* --out: sequence of path components
    dirs,              \* directories that exist (component sequences)
    files,             \* model files written by the export step
    steps,             \* pipeline steps entered, in order
    failure,           \* the step that raised, its error, was it caught
    exitStatus         \* exit status of the process (-1 = running)

svcVars == <<_model, modelLoads, modelLoadFailed, _ranker_model, _ranker_session, rankerChecks,
             rankerLoads, firstKind, modelFile>>
trainVars == <<pc, csv, outPath, dirs, files, steps, failure, exitStatus>>
vars == <<svcVars, stdoutUnicode, req, resp, trainVars>>

----------------------------------------------------------------------------
(* Bounds of the model *)

MaxLoads == 2
MaxRows == 2
MaxTexts == 2
MaxPairs == 2
MaxVecLen == 1
MaxDepth == 2

(* Program constants *)

ExpectedDims == 4
MinItems == 1

Vals == {0, 1}
weights == <<10, 2, 2, 2>>
DefaultModelName == "paraphrase-multilingual-MiniLM-L12-v2"
OnnxScore == "onnx-score"

SeqsUpTo(S, lo, hi) == UNION {[1..n -> S] : n \in lo..hi}

----------------------------------------------------------------------------
(* Requests and responses *)

NoReq == [op |-> "none", texts |-> 0, normalize |-> TRUE, pairs |-> <<>>, method |-> "cosine",
          features |-> <<>>]

NoResp == [op |-> "none", status |-> 0, detail |-> "", ok |-> FALSE,
           model |-> "", ready |-> FALSE, dimsExpected |-> 0, scores |-> <<>>,
           vectors |-> 0, kind |-> "None", handle |-> 0, load |-> "none"]

HTTPException(op, status_code, detail) ==
    [NoResp EXCEPT !.op = op, !.status = status_code, !.detail = detail]

----------------------------------------------------------------------------
(* utils.py *)

get_model_cachesFailure(cache, loads, loadOk) ==
    IF cache = 0
    THEN IF loadOk
         THEN [raised |-> FALSE, model |-> loads + 1, cache |-> loads + 1,
               loads |-> loads + 1, load |-> "ok"]
         ELSE [raised |-> TRUE, model |-> 0, cache |-> -1,
               loads |-> loads, load |-> "failed"]
    ELSE [raised |-> cache = -1, model |-> IF cache = -1 THEN 0 ELSE cache,
          cache |-> cache, loads |-> loads, load |-> "none"]

get_model_reloads(cache, loads, loadOk) ==
    IF loadOk
    THEN [raised |-> FALSE, model |-> loads + 1, cache |-> loads + 1,
          loads |-> loads + 1, load |-> "ok"]
    ELSE [raised |-> TRUE, model |-> 0, cache |-> cache,
          loads |-> loads, load |-> "failed"]

get_model(cache, loads, loadOk) ==
    IF cache = 0
    THEN IF loadOk
         THEN [raised |-> FALSE, model |-> loads + 1, cache |-> loads + 1,
               loads |-> loads + 1, load |-> "ok"]
         ELSE [raised |-> TRUE, model |-> 0, cache |-> 0,
               loads |-> loads, load |-> "failed"]
    ELSE [raised |-> FALSE, model |-> cache, cache |-> cache,
          loads |-> loads, load |-> "none"]

RECURSIVE np_dot(_, _)
np_dot(a, b) ==
    IF Len(a) = 0 THEN 0 ELSE a[1] * b[1] + np_dot(Tail(a), Tail(b))

cosine_similarity(a, b) ==
    LET na2 == np_dot(a, a)
        nb2 == np_dot(b, b)
    IN  IF Len(a) = 0
        THEN [nan |-> FALSE, num |-> 0, den2 |-> 1]
        ELSE IF na2 = 0 \/ nb2 = 0
             THEN [nan |-> TRUE, num |-> 0, den2 |-> 0]
             ELSE [nan |-> FALSE, num |-> np_dot(a, b), den2 |-> na2 * nb2]

dot_product(a, b) == np_dot(a, b)

----------------------------------------------------------------------------
(* main.py: get_ranker *)

get_ranker_retriesFallback(kind, session, checks, loads, importOk, file, printOk) ==
    IF kind = "onnx"
    THEN [model |-> kind, session |-> session, checks |-> checks, loads |-> loads]
    ELSE IF ~importOk
    THEN [model |-> "fallback", session |-> session, checks |-> checks,
          loads |-> loads]
    ELSE IF file = "absent"
    THEN [model |-> "fallback", session |-> session, checks |-> checks + 1,
          loads |-> loads]
    ELSE IF file = "corrupt"
    THEN [model |-> "fallback", session |-> session, checks |-> checks + 1,
          loads |-> loads + 1]
    ELSE [model |-> IF printOk THEN "onnx" ELSE "fallback",
          session |-> loads + 1, checks |-> checks + 1, loads |-> loads + 1]

get_ranker(kind, session, checks, loads, importOk, file, printOk) ==
    IF kind # "None"
    THEN [model |-> kind, session |-> session, checks |-> checks, loads |-> loads]
    ELSE IF ~importOk
    THEN [model |-> "fallback", session |-> session, checks |-> checks,
          loads |-> loads]
    ELSE IF file = "absent"
    THEN [model |-> "fallback", session |-> session, checks |-> checks + 1,
          loads |-> loads]
    ELSE IF file = "corrupt"
    THEN [model |-> "fallback", session |-> session, checks |-> checks + 1,
          loads |-> loads + 1]
    ELSE [model |-> IF printOk THEN "onnx" ELSE "fallback",
          session |-> loads + 1, checks |-> checks + 1, loads |-> loads + 1]

----------------------------------------------------------------------------
(* main.py: handlers *)

health_check_noExcept(gm) ==
    IF gm.raised
    THEN [HTTPException("health", 500, "Internal Server Error")
            EXCEPT !.load = gm.load]
    ELSE [NoResp EXCEPT !.op = "health", !.status = 200, !.ok = TRUE,
            !.model = DefaultModelName, !.ready = TRUE,
            !.handle = gm.model, !.load = gm.load]

health_check(gm) ==
    IF gm.raised
    THEN [NoResp EXCEPT !.op = "health", !.status = 200, !.ok = FALSE,
            !.model = "error", !.ready = FALSE, !.load = gm.load]
    ELSE [NoResp EXCEPT !.op = "health", !.status = 200, !.ok = TRUE,
            !.model = DefaultModelName, !.ready = TRUE,
            !.handle = gm.model, !.load = gm.load]

embed_texts(gm, request, encodeOk) ==
    IF gm.raised \/ ~encodeOk
    THEN [HTTPException("embed", 500, "Embedding generation failed")
            EXCEPT !.load = gm.load, !.handle = gm.model]
    ELSE [NoResp EXCEPT !.op = "embed", !.status = 200,
            !.vectors = request.texts, !.model = DefaultModelName,
            !.handle = gm.model, !.load = gm.load]

(* np.array(request.features, dtype=np.float32) raises ValueError on rows of
   different lengths *)
np_array_raises(features) ==
    \E i, j \in 1..Len(features) : Len(features[i]) # Len(features[j])

RECURSIVE linear_combination(_, _)
linear_combination(w, f) ==
    IF Len(w) = 0 \/ Len(f) = 0
    THEN 0
    ELSE w[1] * f[1] + linear_combination(Tail(w), Tail(f))

RECURSIVE fallback_loop_acceptsLonger(_, _)
fallback_loop_acceptsLonger(features, scores) ==
    IF Len(features) = 0
    THEN [raised |-> FALSE, scores |-> scores]
    ELSE IF Len(features[1]) < ExpectedDims
         THEN [raised |-> TRUE, scores |-> <<>>]
         ELSE fallback_loop_acceptsLonger(Tail(features),
                 Append(scores, linear_combination(weights, features[1])))

(* the loop of the fallback branch: rows in request order, the first row of a
   wrong length raises and the scores collected so far are dropped *)
RECURSIVE fallback_loop(_, _)
fallback_loop(features, scores) ==
    IF Len(features) = 0
    THEN [raised |-> FALSE, scores |-> scores]
    ELSE IF Len(features[1]) # ExpectedDims
         THEN [raised |-> TRUE, scores |-> <<>>]
         ELSE fallback_loop(Tail(features),
                 Append(scores, linear_combination(weights, features[1])))

rank_candidates(gr, request, runOk) ==
    LET model_type == gr.model
        session == gr.session
        features == request.features
        seen == [NoResp EXCEPT !.op = "rank", !.kind = model_type,
                               !.handle = session]
    IN  IF model_type = "onnx" /\ session # 0
        THEN IF np_array_raises(features) \/ ~runOk
             THEN [seen EXCEPT !.status = 500, !.detail = "Ranking failed"]
             ELSE [seen EXCEPT !.status = 200, !.model = model_type,
                     !.scores = [i \in 1..Len(features) |-> OnnxScore]]
        ELSE LET r == fallback_loop(features, <<>>)
             IN  IF r.raised
                 THEN [seen EXCEPT !.status = 400,
                         !.detail = "Expected 4 features per candidate"]
                 ELSE [seen EXCEPT !.status = 200, !.model = model_type,
                         !.scores = r.scores]

(* the loop of score_pairs: pairs in request order, the first pair of
   unequal lengths raises and the scores collected so far are dropped *)
score_loop_noLengthCheck(pairs, method, scores) ==
    IF \E i \in 1..Len(pairs) : Len(pairs[i].user_vec) # Len(pairs[i].item_vec)
    THEN [raised |-> 500, scores |-> <<>>]
    ELSE [raised |-> 0,
          scores |-> [i \in 1..Len(pairs) |->
                        IF method = "cosine"
                        THEN cosine_similarity(pairs[i].user_vec, pairs[i].item_vec)
                        ELSE dot_product(pairs[i].user_vec, pairs[i].item_vec)]]

RECURSIVE score_loop(_, _, _)
score_loop(pairs, method, scores) ==
    IF Len(pairs) = 0
    THEN [raised |-> 0, scores |-> scores]
    ELSE IF Len(pairs[1].user_vec) # Len(pairs[1].item_vec)
         THEN [raised |-> 400, scores |-> <<>>]
         ELSE score_loop(Tail(pairs), method,
                 Append(scores,
                     IF method = "cosine"
                     THEN cosine_similarity(pairs[1].user_vec, pairs[1].item_vec)
                     ELSE dot_product(pairs[1].user_vec, pairs[1].item_vec)))

score_pairs(request) ==
    LET r == score_loop(request.pairs, request.method, <<>>)
    IN  IF r.raised = 400
        THEN HTTPException("score", 400, "Vector dimensions must match")
        ELSE IF r.raised # 0
             THEN HTTPException("score", 500, "Scoring failed")
             ELSE [NoResp EXCEPT !.op = "score", !.status = 200,
                     !.scores = r.scores]

ranker_health(gr) ==
    [NoResp EXCEPT !.op = "ranker_health", !.status = 200, !.ok = TRUE,
        !.model = gr.model, !.dimsExpected = ExpectedDims,
        !.kind = gr.model, !.handle = gr.session]

----------------------------------------------------------------------------
(* Inputs *)

FileStates == {"absent", "corrupt", "valid"}

(* rows of the expected width: no feature set, one feature set, all set; rows
   of a wrong width are told apart by their length only *)
FeatureRows ==
    {[i \in 1..ExpectedDims |-> IF i = k THEN 1 ELSE 0] : k \in 0..ExpectedDims}
        \cup {[i \in 1..n |-> 1] :
                n \in {ExpectedDims - 1, ExpectedDims, ExpectedDims + 1}}

RankRequests ==
    {[NoReq EXCEPT !.op = "rank", !.features = f] :
        f \in SeqsUpTo(FeatureRows, MinItems, MaxRows)}

EmbedRequests ==
    {[NoReq EXCEPT !.op = "embed", !.texts = n, !.normalize = b] :
        n \in MinItems..MaxTexts, b \in BOOLEAN}

HealthRequests ==
    {[NoReq EXCEPT !.op = o] : o \in {"health", "ranker_health"}}

Vectors == SeqsUpTo(Vals, 0, MaxVecLen)

VectorPair == [user_vec : Vectors, item_vec : Vectors]

ScoreRequests ==
    {[NoReq EXCEPT !.op = "score", !.pairs = p, !.method = m] :
        p \in SeqsUpTo(VectorPair, MinItems, MaxPairs), m \in {"cosine", "dot"}}

NoFailure == [step |-> "none", error |-> "", missing |-> <<>>, uncaught |-> FALSE]

TrainIdle ==
    /\ pc = "idle"
    /\ csv = [readable |-> FALSE, columns |-> {}]
    /\ outPath = <<>>
    /\ dirs = {}
    /\ files = {}
    /\ steps = <<>>
    /\ failure = NoFailure
    /\ exitStatus = -1

----------------------------------------------------------------------------
(* The serving process.  A request is validated against its request model
   and handed to its handler (Arrive), the handler runs to completion, and
   the response is sent (Respond).  The model file changes between two
   handler runs; as a handler is atomic and neither Arrive nor Respond reads
   the file, a change is placed between two requests. *)

Init ==
    /\ _model = 0
    /\ modelLoads = 0
    /\ modelLoadFailed = FALSE
    /\ _ranker_model = "None"
    /\ _ranker_session = 0
    /\ rankerChecks = 0
    /\ rankerLoads = 0
    /\ firstKind = "None"
    /\ modelFile \in FileStates
    /\ stdoutUnicode \in BOOLEAN
    /\ req = NoReq
    /\ resp = NoResp
    /\ TrainIdle

Arrive ==
    /\ req = NoReq
    /\ resp = NoResp
    /\ req' \in HealthRequests \cup EmbedRequests \cup RankRequests
    /\ UNCHANGED <<svcVars, stdoutUnicode, resp, trainVars>>

ArriveScore ==
    /\ req = NoReq
    /\ resp = NoResp
    /\ req' \in ScoreRequests
    /\ UNCHANGED <<svcVars, stdoutUnicode, resp, trainVars>>

Respond ==
    /\ resp # NoResp
    /\ req' = NoReq
    /\ resp' = NoResp
    /\ UNCHANGED <<svcVars, stdoutUnicode, trainVars>>

CallGetModel(gm) ==
    /\ gm.loads <= MaxLoads
    /\ _model' = gm.cache
    /\ modelLoads' = gm.loads
    /\ modelLoadFailed' = (modelLoadFailed \/ gm.load = "failed")
    /\ UNCHANGED <<_ranker_model, _ranker_session, rankerChecks, rankerLoads,
                   firstKind, modelFile, stdoutUnicode, req, trainVars>>

CallGetRanker(gr) ==
    /\ gr.checks <= MaxLoads
    /\ gr.loads <= MaxLoads
    /\ _ranker_model' = gr.model
    /\ _ranker_session' = gr.session
    /\ rankerChecks' = gr.checks
    /\ rankerLoads' = gr.loads
    /\ firstKind' = IF firstKind = "None" THEN gr.model ELSE firstKind
    /\ UNCHANGED <<_model, modelLoads, modelLoadFailed, modelFile, stdoutUnicode, req, trainVars>>

Health ==
    /\ req.op = "health"
    /\ resp = NoResp
    /\ \E loadOk \in BOOLEAN :
        LET gm == get_model(_model, modelLoads, loadOk)
        IN  /\ CallGetModel(gm)
            /\ resp' = health_check(gm)

Embed ==
    /\ req.op = "embed"
    /\ resp = NoResp
    /\ \E loadOk \in BOOLEAN, encodeOk \in BOOLEAN :
        LET gm == get_model(_model, modelLoads, loadOk)
        IN  /\ CallGetModel(gm)
            /\ resp' = embed_texts(gm, req, encodeOk)

Rank ==
    /\ req.op = "rank"
    /\ resp = NoResp
    /\ \E importOk \in BOOLEAN, runOk \in BOOLEAN :
        LET gr == get_ranker(_ranker_model, _ranker_session, rankerChecks,
                             rankerLoads, importOk, modelFile, stdoutUnicode)
        IN  /\ CallGetRanker(gr)
            /\ resp' = rank_candidates(gr, req, runOk)

RankerHealth ==
    /\ req.op = "ranker_health"
    /\ resp = NoResp
    /\ \E importOk \in BOOLEAN :
        LET gr == get_ranker(_ranker_model, _ranker_session, rankerChecks,
                             rankerLoads, importOk, modelFile, stdoutUnicode)
        IN  /\ CallGetRanker(gr)
            /\ resp' = ranker_health(gr)

Score ==
    /\ req.op = "score"
    /\ resp = NoResp
    /\ resp' = score_pairs(req)
    /\ UNCHANGED <<svcVars, stdoutUnicode, req, trainVars>>

(* the environment: the model file appears, disappears or is replaced *)
FileChange ==
    /\ req = NoReq
    /\ \E f \in FileStates \ {modelFile} : modelFile' = f
    /\ UNCHANGED <<_model, modelLoads, modelLoadFailed, _ranker_model, _ranker_session,
                   rankerChecks, rankerLoads, firstKind, stdoutUnicode,
                   req, resp, trainVars>>

Next ==
    \/ Arrive
    \/ Health
    \/ Embed
    \/ Rank
    \/ RankerHealth
    \/ Respond
    \/ FileChange

Spec == Init /\ [][Next]_vars

ScoreNext ==
    \/ ArriveScore
    \/ Score
    \/ Respond

ScoreSpec == Init /\ [][ScoreNext]_vars

----------------------------------------------------------------------------
(* train_ranker.py *)

required_cols == <<"label", "f0_sim", "f1_recency", "f2_trust", "f3_geo">>
feature_cols == <<"f0_sim", "f1_recency", "f2_trust", "f3_geo">>

Range(q) == {q[i] : i \in 1..Len(q)}

Columns == Range(required_cols) \cup {"id"}

PathNames == {"models", "ranker.onnx"}

Paths == SeqsUpTo(PathNames, 1, MaxDepth)

Prefixes(path) == {SubSeq(path, 1, n) : n \in 1..Len(path)}

(* os.path.dirname: everything before the last component, '' (the empty
   sequence) for a bare file name *)
os_path_dirname(path) == SubSeq(path, 1, Len(path) - 1)

(* os.makedirs(d, exist_ok=True): FileNotFoundError on '' *)
os_makedirs(d, existing) ==
    IF Len(d) = 0
    THEN [raised |-> TRUE, dirs |-> existing]
    ELSE [raised |-> FALSE, dirs |-> existing \cup Prefixes(d)]

(* print of a line that holds a non-ASCII mark: UnicodeEncodeError when
   sys.stdout cannot encode it *)
print_mark_raises(unicode) == ~unicode

load_data_checksFeaturesOnly(table) ==
    LET missing_cols ==
            SelectSeq(feature_cols, LAMBDA col : col \notin table.columns)
    IN  IF ~table.readable
        THEN [raised |-> TRUE, error |-> "read_csv", missing |-> <<>>]
        ELSE IF Len(missing_cols) > 0
             THEN [raised |-> TRUE, error |-> "Missing required columns",
                   missing |-> missing_cols]
             ELSE [raised |-> FALSE, error |-> "", missing |-> <<>>]

load_data(table) ==
    LET missing_cols ==
            SelectSeq(required_cols, LAMBDA col : col \notin table.columns)
    IN  IF ~table.readable
        THEN [raised |-> TRUE, error |-> "read_csv", missing |-> <<>>]
        ELSE IF Len(missing_cols) > 0
             THEN [raised |-> TRUE, error |-> "Missing required columns",
                   missing |-> missing_cols]
             ELSE [raised |-> FALSE, error |-> "", missing |-> <<>>]

export_to_onnx(output_path, existing, written, convertOk, unicode) ==
    LET made == os_makedirs(os_path_dirname(output_path), existing)
    IN  IF made.raised
        THEN [raised |-> TRUE, error |-> "FileNotFoundError",
              dirs |-> existing, files |-> written]
        ELSE IF ~convertOk
        THEN [raised |-> TRUE, error |-> "convert_lightgbm",
              dirs |-> made.dirs, files |-> written]
        ELSE IF print_mark_raises(unicode)
        THEN [raised |-> TRUE, error |-> "UnicodeEncodeError",
              dirs |-> made.dirs, files |-> written \cup {output_path}]
        ELSE [raised |-> FALSE, error |-> "",
              dirs |-> made.dirs, files |-> written \cup {output_path}]

(* line 178, exit(main()): the value main returns, 1 when main raises *)
exit_status(returned, raised) == IF raised THEN 1 ELSE returned

(* the except clause of main: the failure line holds a non-ASCII mark, so
   where stdout cannot encode it main raises instead of returning 1 *)
Fail(step, error, missing) ==
    /\ pc' = "done"
    /\ failure' = [step |-> step, error |-> error, missing |-> missing,
                   uncaught |-> print_mark_raises(stdoutUnicode)]
    /\ exitStatus' = exit_status(1, print_mark_raises(stdoutUnicode))

TrainInit ==
    /\ _model = 0
    /\ modelLoads = 0
    /\ modelLoadFailed = FALSE
    /\ _ranker_model = "None"
    /\ _ranker_session = 0
    /\ rankerChecks = 0
    /\ rankerLoads = 0
    /\ firstKind = "None"
    /\ modelFile = "absent"
    /\ stdoutUnicode \in BOOLEAN
    /\ req = NoReq
    /\ resp = NoResp
    /\ pc = "load"
    /\ csv \in {[readable |-> FALSE, columns |-> {}]}
                 \cup [readable : {TRUE}, columns : SUBSET Columns]
    /\ outPath \in Paths
    /\ dirs \in {D \in SUBSET SeqsUpTo(PathNames, 1, MaxDepth - 1) :
                    /\ \A d \in D : Prefixes(d) \subseteq D
                    /\ outPath \notin D}
    /\ files = {}
    /\ steps = <<>>
    /\ failure = NoFailure
    /\ exitStatus = -1

Load ==
    /\ pc = "load"
    /\ steps' = Append(steps, "load")
    /\ LET r == load_data(csv)
       IN  IF r.raised
           THEN Fail("load", r.error, r.missing)
           ELSE pc' = "prepare" /\ UNCHANGED <<failure, exitStatus>>
    /\ UNCHANGED <<svcVars, stdoutUnicode, req, resp, csv, outPath, dirs, files>>

Prepare ==
    /\ pc = "prepare"
    /\ steps' = Append(steps, "prepare")
    /\ \E ok \in BOOLEAN :
           IF ok
           THEN pc' = "train" /\ UNCHANGED <<failure, exitStatus>>
           ELSE Fail("prepare", "prepare_features", <<>>)
    /\ UNCHANGED <<svcVars, stdoutUnicode, req, resp, csv, outPath, dirs, files>>

Train ==
    /\ pc = "train"
    /\ steps' = Append(steps, "train")
    /\ \E ok \in BOOLEAN :
           IF ok
           THEN pc' = "export" /\ UNCHANGED <<failure, exitStatus>>
           ELSE Fail("train", "train_model", <<>>)
    /\ UNCHANGED <<svcVars, stdoutUnicode, req, resp, csv, outPath, dirs, files>>

Export ==
    /\ pc = "export"
    /\ steps' = Append(steps, "export")
    /\ \E convertOk \in BOOLEAN :
           LET r == export_to_onnx(outPath, dirs, files, convertOk, stdoutUnicode)
           IN  /\ dirs' = r.dirs
               /\ files' = r.files
               /\ IF r.raised
                  THEN Fail("export", r.error, <<>>)
                  ELSE pc' = "finish" /\ UNCHANGED <<failure, exitStatus>>
    /\ UNCHANGED <<svcVars, stdoutUnicode, req, resp, csv, outPath>>

Finish ==
    /\ pc = "finish"
    /\ IF print_mark_raises(stdoutUnicode)
       THEN Fail("finish", "UnicodeEncodeError", <<>>)
       ELSE /\ pc' = "done"
            /\ exitStatus' = exit_status(0, FALSE)
            /\ UNCHANGED failure
    /\ UNCHANGED <<svcVars, stdoutUnicode, req, resp, csv, outPath, dirs, files,
                   steps>>

TrainNext ==
    \/ Load
    \/ Prepare
    \/ Train
    \/ Export
    \/ Finish

TrainSpec == TrainInit /\ [][TrainNext]_vars

----------------------------------------------------------------------------
(* Properties *)

RankerOps == {"rank", "ranker_health"}
ModelOps == {"health", "embed"}

WrongWidth(features) ==
    \E i \in 1..Len(features) : Len(features[i]) # ExpectedDims

(* C1: every get_ranker call returns the kind the first call returned,
   whatever the model file has become since; the file is looked for at most
   once and a load is attempted at most once, and none after the first
   return. *)
C1_RankerKindStable ==
    /\ [](resp.op \in RankerOps =>
            /\ resp.kind \in {"onnx", "fallback"}
            /\ resp.kind = firstKind)
    /\ [](rankerChecks <= 1 /\ rankerLoads <= 1)
    /\ [][firstKind # "None" =>
            /\ rankerChecks' = rankerChecks
            /\ rankerLoads' = rankerLoads]_vars

(* a rank request answered by the fallback after the file, absent at the
   first call, has become loadable *)
C1_Witness ==
    /\ resp.op = "rank"
    /\ resp.kind = "fallback"
    /\ modelFile = "valid"
    /\ rankerChecks = 1
    /\ rankerLoads = 0

(* C2: a score request with a pair of unequal lengths at any position is
   rejected with status 400 'Vector dimensions must match' and no scores,
   never with status 500. *)
C2_MismatchIsClientFault ==
    (/\ resp.op = "score"
     /\ \E i \in 1..Len(req.pairs) :
            Len(req.pairs[i].user_vec) # Len(req.pairs[i].item_vec))
    => /\ resp.status = 400
       /\ resp.detail = "Vector dimensions must match"
       /\ Len(resp.scores) = 0

(* a cosine request whose first pair is scored (a zero vector) and whose
   second pair does not match *)
C2_Witness ==
    /\ resp.op = "score"
    /\ resp.status = 400
    /\ req.method = "cosine"
    /\ Len(req.pairs) = 2
    /\ req.pairs[1] = [user_vec |-> <<0>>, item_vec |-> <<1>>]
    /\ Len(req.pairs[2].user_vec) # Len(req.pairs[2].item_vec)

(* C3: under kind 'fallback' a rank request is rejected with status 400
   'Expected 4 features per candidate' and no scores exactly when a row does
   not have 4 features; otherwise model is 'fallback' and there is one score
   per row, in order, 1.0*f0 + 0.2*f1 + 0.2*f2 + 0.2*f3 (in tenths). *)
C3_FallbackRank ==
    (resp.op = "rank" /\ resp.kind = "fallback")
    => /\ WrongWidth(req.features) <=>
            /\ resp.status = 400
            /\ resp.detail = "Expected 4 features per candidate"
            /\ Len(resp.scores) = 0
       /\ ~WrongWidth(req.features) =>
            /\ resp.status = 200
            /\ resp.model = "fallback"
            /\ Len(resp.scores) = Len(req.features)
            /\ \A i \in 1..Len(req.features) :
                 LET f == req.features[i]
                 IN  resp.scores[i] = 10 * f[1] + 2 * f[2] + 2 * f[3] + 2 * f[4]

(* two rows scored by the fallback, in order *)
C3_Witness ==
    /\ resp.op = "rank"
    /\ resp.kind = "fallback"
    /\ req.features = << <<1, 0, 0, 0>>, <<1, 1, 1, 1>> >>
    /\ resp.scores = <<10, 16>>

(* C4: a rank request with a row of a wrong feature count is rejected with
   status 400 and no scores in every ranker kind. *)
C4_WrongWidthIsClientFault ==
    (resp.op = "rank" /\ WrongWidth(req.features))
    => /\ resp.status = 400
       /\ Len(resp.scores) = 0

(* C5: health and ranker health always answer with a structured response
   (status 200): health is ok and ready when the model is obtained and not
   ok, 'error', not ready when obtaining it raises; ranker health has
   dimsExpected 4 and the current kind, or not ok and 'error'. *)
C5_HealthNeverPropagates ==
    /\ resp.op = "health" =>
        /\ resp.status = 200
        /\ resp.load # "failed" => (resp.ok /\ resp.ready)
        /\ resp.load = "failed" =>
             (~resp.ok /\ resp.model = "error" /\ ~resp.ready)
    /\ resp.op = "ranker_health" =>
        /\ resp.status = 200
        /\ resp.dimsExpected = 4
        /\ \/ resp.ok /\ resp.model = _ranker_model
           \/ ~resp.ok /\ resp.model = "error"

(* a health request during which the embedding model failed to load *)
C5_Witness ==
    /\ resp.op = "health"
    /\ resp.load = "failed"
    /\ resp.status = 200
    /\ ~resp.ok

(* C6: each cache is set at most once: at most one embedding model and one
   ranker session are ever constructed, a set cache never changes, no load
   is started once the embedding model is cached, and every call returns
   the cached handle. *)
C6_InitializedAtMostOnce ==
    /\ [](modelLoads <= 1 /\ rankerLoads <= 1)
    /\ [](resp.op \in ModelOps /\ resp.handle # 0 => resp.handle = _model)
    /\ [](resp.op \in RankerOps => resp.handle = _ranker_session)
    /\ [][/\ _model # 0 => (_model' = _model /\ resp'.load = "none")
          /\ _ranker_session # 0 => _ranker_session' = _ranker_session
          /\ _ranker_model # "None" => _ranker_model' = _ranker_model]_vars

(* an embed request served from the cache, both models loaded *)
C6_Witness ==
    /\ resp.op = "embed"
    /\ resp.status = 200
    /\ resp.load = "none"
    /\ resp.handle = 1
    /\ _model = 1
    /\ _ranker_session = 1

(* C7: a readable CSV that lacks required columns fails in the load step,
   the error names exactly the missing columns, no other step is entered,
   no file is written and the exit status is 1; a run in which no step
   raises exits with 0. *)
C7_MissingColumnsFailFast ==
    LET missing == Range(required_cols) \ csv.columns
    IN  /\ (csv.readable /\ missing # {}) =>
            /\ \A i \in 1..Len(steps) : steps[i] = "load"
            /\ files = {}
            /\ pc \in {"load", "done"}
            /\ pc = "done" =>
                 /\ failure.step = "load"
                 /\ failure.error = "Missing required columns"
                 /\ Range(failure.missing) = missing
                 /\ Len(failure.missing) = Cardinality(missing)
                 /\ exitStatus = 1
        /\ (pc = "done" /\ failure.step = "none") => exitStatus = 0

(* the run on a CSV without its label column has ended *)
C7_Witness ==
    /\ pc = "done"
    /\ csv.readable
    /\ csv.columns = Range(feature_cols)
    /\ failure.missing = <<"label">>
    /\ exitStatus = 1

(* C8: for every output path, a bare file name included, the export of a
   trained model writes the file and the run exits with 0 (the conversion
   succeeding and stdout able to print the log lines). *)
C8_ExportWritesAnyPath ==
    (/\ pc = "done"
     /\ steps = <<"load", "prepare", "train", "export">>
     /\ stdoutUnicode
     /\ failure.error # "convert_lightgbm")
    => /\ outPath \in files
       /\ exitStatus = 0

(* C9: the cached ranker pair is (unset, null), ('onnx', session) or
   ('fallback', null). *)
C9_RankerCacheShape ==
    \/ _ranker_model = "None" /\ _ranker_session = 0
    \/ _ranker_model = "onnx" /\ _ranker_session # 0
    \/ _ranker_model = "fallback" /\ _ranker_session = 0

(* C10: a failed embedding-model load leaves the cache unset and the next
   health or embed request loads again; once the model is cached it stays
   cached and every health response is ok and ready. *)
C10_EmbeddingRetry ==
    /\ [](resp.load = "failed" => _model = 0)
    /\ [](resp.op = "health" /\ _model # 0 => resp.ok /\ resp.ready)
    /\ [][/\ (_model = 0 /\ resp'.op \in ModelOps) =>
                resp'.load \in {"ok", "failed"}
          /\ _model # 0 => _model' # 0]_vars

(* health turns ok after an earlier load failed *)
C10_Witness ==
    /\ modelLoadFailed
    /\ resp.op = "health"
    /\ resp.load = "ok"
    /\ resp.ok

====
